---- MODULE Spec2Model ----
(***************************************************************************)
(* Translation-request orchestration of the Kurdish translate client.     *)
(*                                                                         *)
(* The repository holds two revisions of the App component:               *)
(*   "generation" : src/unnamed/part_000, guarded by requestGenerationRef  *)
(*   "requestKey" : src/services/geminiService.ts:252-332, guarded by      *)
(*                  lastRequestRef                                         *)
(* Both are modelled over the same React state; `variant` says which one   *)
(* a behaviour runs.  A step is one event-loop task: a UI handler, the     *)
(* debounce timer callback, the settling of a translateText promise, or    *)
(* the flush of the passive effects of the last render.  Effects are       *)
(* flushed before the next task is taken.                                  *)
(*                                                                         *)
(* Strings the code inspects character by character (trim, the request    *)
(* key) are sequences of one-character strings; the messages of the UI     *)
(* string table are TLA+ strings.                                          *)
(***************************************************************************)
EXTENDS Integers, Sequences, FiniteSets, TLC

VARIABLES
    mounted,            \* the App component is mounted
    response,           \* the JSON object the model endpoint answers with
    variant,            \* which App revision runs: "generation" | "requestKey"
    apiKey,             \* process.env.API_KEY is set
    sourceText,         \* useState('')
    sourceLang,
    targetLang,
    uiLang,             \* TranslationProvider: language
    result,             \* TranslationResult | null
    isLoading,
    error,
    isMeaningVisible,
    showAlternatives,   \* generation revision only
    debouncedValue,     \* useDebounce: debouncedValue
    timers,             \* pending setTimeout handlers of useDebounce
    requestGenerationRef, \* generation revision only
    lastRequestRef,     \* requestKey revision only
    lastDispatched,     \* history: the tuple of the last translateText call
    inflight,           \* translateText promises not yet settled
    seen,               \* dependency values of the last effect flush
    calls,              \* history: number of translateText calls made
    lastStep,           \* history: the step just taken, and what it did
    sinceChange,        \* history: time since sourceText last changed
    events              \* history: number of user events so far

vars == <<mounted, response, variant, apiKey, sourceText, sourceLang, targetLang, uiLang, result,
          isLoading, error, isMeaningVisible, showAlternatives, debouncedValue,
          timers, requestGenerationRef, lastRequestRef,
          lastDispatched, inflight, seen, calls,
          lastStep, sinceChange, events>>

----------------------------------------------------------------------------
(* Bounds of the model *)

\* user events (typing, selecting, clicking) a behaviour may hold
MaxEvents == 3

\* the debounce delay (750 ms in the code) in clock ticks
DelayTicks == 2

----------------------------------------------------------------------------
(* Data *)

Null == [null |-> TRUE]

Str(c) == <<c>>

Empty == <<>>

\* what the user types into the textarea
TypedTexts == {Empty, Str(" "), Str("a")}

\* the UI languages the user switches between (the provider starts in 'tr')
UiLanguages == {"tr", "en"}

\* <option> values of the source / target selects
SourceOptions ==
    IF variant = "generation" THEN {"ku", "tr", "en"} ELSE {"auto", "ku", "tr", "en"}

TargetOptions == {"ku", "tr", "en"}

IsSpace(c) == c = " "

RECURSIVE TrimStart(_)
TrimStart(s) ==
    IF s = <<>> THEN <<>>
    ELSE IF IsSpace(Head(s)) THEN TrimStart(Tail(s)) ELSE s

RECURSIVE TrimEnd(_)
TrimEnd(s) ==
    IF s = <<>> THEN <<>>
    ELSE IF IsSpace(s[Len(s)]) THEN TrimEnd(SubSeq(s, 1, Len(s) - 1)) ELSE s

\* String.prototype.trim
trim(s) == TrimEnd(TrimStart(s))

\* the entries of the UI string table the orchestrator reads
translations ==
    [en |-> [apiError |-> "API connection failed. Please check your connection and API Key.",
             apiKeyMissingError |-> "API Key is not configured. Please set it up in your deployment environment."],
     tr |-> [apiError |-> "API baglantisi basarisiz. Lutfen baglantinizi ve API anahtarinizi kontrol edin.",
             apiKeyMissingError |-> "API Anahtari yapilandirilmamis. Lutfen dagitim ortaminizda ayarlayin."],
     ku |-> [apiError |-> "Tekiliya APIye tek cu. Ji kerema xwe pewendiya xwe u mifteya APIya xwe kontrol bikin.",
             apiKeyMissingError |-> "Mifteya APIye nehatiye veavakirin. Ji kerema xwe we di hawirdora xweya bicihkirine de saz bikin."]]

\* t(key) of the TranslationProvider rendered with `language`
t(language, key) ==
    IF language \in DOMAIN translations /\ key \in DOMAIN translations[language]
    THEN translations[language][key]
    ELSE translations["en"][key]

----------------------------------------------------------------------------
(* The translation service *)

\* JSON objects the model endpoint may answer with: a function from the keys
\* present to their values.
FullResponse ==
    [correctedSourceText |-> Str("b"),
     mainTranslation |-> Str("m"),
     alternativeTranslations |-> <<Str("n"), Str("o")>>,
     meaningExplanation |-> Str("e")]

\* the body of an answer of the endpoint, as response.text holds it: absent,
\* text that is not JSON, or the text of a JSON null, of a JSON string or array,
\* or of a JSON object
NoBody == [kind |-> "undefined"]

MalformedBody == [kind |-> "malformed"]

NullBody == [kind |-> "null"]

ValueBody(v) == [kind |-> "value", value |-> v]

ObjectBody(obj) == [kind |-> "object", value |-> obj]

\* what the endpoint does with one request of the running component: answer
\* with the text of the object `response`, or fail (network error, quota)
ServiceOutcomes == {[ok |-> TRUE, body |-> ObjectBody(response)], [ok |-> FALSE]}

\* the try block is left by an exception: generateContent rejects,
\* response.text.trim() finds no text, JSON.parse rejects the text, or a
\* property of null is read
TryBlockThrows(svc) ==
    \/ ~svc.ok
    \/ svc.body.kind \in {"undefined", "malformed", "null"}

\* the properties the return statement can read from JSON.parse's value: those
\* of an object; a string, a number or an array has none of the five
Properties(svc) ==
    IF svc.body.kind = "object" THEN svc.body.value ELSE <<>>

\* (mutant) every field falls back to its empty value
OrDefaultEmpty(json, field, empty, dflt) ==
    IF field \in DOMAIN json /\ json[field] # empty THEN json[field] ELSE empty

\* result.field || dflt
OrDefault(json, field, empty, dflt) ==
    IF field \in DOMAIN json /\ json[field] # empty THEN json[field] ELSE dflt

ApiKeyMissing == "API_KEY_MISSING"

ServiceFailed == "Failed to get translation from AI. Please check your API key and try again."

\* translateText(text, ...): the settled promise, given what the endpoint did
translateText(text, hasKey, svc) ==
    IF ~hasKey THEN [ok |-> FALSE, message |-> ApiKeyMissing]
    ELSE IF trim(text) = Empty
    THEN [ok |-> TRUE,
          value |-> [detectedLanguage |-> Empty, correctedSourceText |-> Empty,
                     mainTranslation |-> Empty, alternativeTranslations |-> <<>>,
                     meaningExplanation |-> Empty]]
    ELSE IF TryBlockThrows(svc) THEN [ok |-> FALSE, message |-> ServiceFailed]
    ELSE LET json == Properties(svc) IN
         [ok |-> TRUE,
          value |-> [detectedLanguage |-> OrDefault(json, "detectedLanguage", Empty, Empty),
                     correctedSourceText |-> OrDefault(json, "correctedSourceText", Empty, text),
                     mainTranslation |-> OrDefault(json, "mainTranslation", Empty, Empty),
                     alternativeTranslations |->
                         OrDefault(json, "alternativeTranslations", <<>>, <<>>),
                     meaningExplanation |-> OrDefault(json, "meaningExplanation", Empty, Empty)]]

----------------------------------------------------------------------------
(* Rendering and effects *)

\* the dependency arrays of the three effects, as the current render sees them
renderDeps ==
    [value |-> sourceText,
     perform |-> <<debouncedValue, sourceLang, targetLang, uiLang>>,
     lang |-> <<sourceLang, targetLang>>]

\* a render has been committed whose effects have not run yet
EffectsPending == seen # renderDeps

Flushed == ~EffectsPending

\* the user acts once more
UserEvent ==
    /\ events < MaxEvents
    /\ events' = events + 1

\* (mutant) the cleanup leaves the pending handler running
clearTimeoutForgotten(pending) == pending

\* clearTimeout(handler) in the cleanup of the debounce effect
clearTimeout(pending) == {}

\* (mutant) the effect starts a timer on mount only
useDebounceEffectOnce == UNCHANGED timers

\* useDebounce: the effect on [value, delay]
useDebounceEffect ==
    IF seen.value # sourceText
    THEN timers' = clearTimeout(timers) \cup {[value |-> sourceText, left |-> DelayTicks]}
    ELSE UNCHANGED timers

\* `${debouncedSourceText}:${sourceLang}:${targetLang}:${uiLang}`
requestKey(text, sl, tl, ui) == text \o <<":", sl, ":", tl, ":", ui>>

\* the translateText call a reconcile makes, with what its continuation captures
NewCall(generation) ==
    [id |-> calls + 1, generation |-> generation, text |-> debouncedValue,
     sourceLang |-> sourceLang, targetLang |-> targetLang, uiLang |-> uiLang]

\* (mutant) the token is advanced before the empty-text test
performTranslationGenerationEager ==
    /\ requestGenerationRef' = requestGenerationRef + 1
    /\ error' = ""
    /\ IF trim(debouncedValue) = Empty
       THEN /\ result' = Null
            /\ UNCHANGED <<isLoading, lastRequestRef, lastDispatched, inflight, calls>>
       ELSE /\ isLoading' = TRUE
            /\ inflight' = inflight \cup {NewCall(requestGenerationRef + 1)}
            /\ calls' = calls + 1
            /\ lastDispatched' = requestKey(debouncedValue, sourceLang, targetLang, uiLang)
            /\ UNCHANGED <<result, lastRequestRef>>

\* performTranslation of the generation revision, up to its await
performTranslationGeneration ==
    IF trim(debouncedValue) = Empty
    THEN /\ result' = Null
         /\ error' = ""
         /\ UNCHANGED <<isLoading, requestGenerationRef, lastRequestRef,
                        lastDispatched, inflight, calls>>
    ELSE /\ requestGenerationRef' = requestGenerationRef + 1
         /\ isLoading' = TRUE
         /\ error' = ""
         /\ inflight' = inflight \cup {NewCall(requestGenerationRef + 1)}
         /\ calls' = calls + 1
         /\ lastDispatched' = requestKey(debouncedValue, sourceLang, targetLang, uiLang)
         /\ UNCHANGED <<result, lastRequestRef>>

\* performTranslation of the requestKey revision, up to its await
performTranslationRequestKey ==
    LET key == requestKey(debouncedValue, sourceLang, targetLang, uiLang) IN
    IF trim(debouncedValue) = Empty \/ lastRequestRef = key
    THEN /\ IF trim(debouncedValue) = Empty
            THEN result' = Null /\ error' = ""
            ELSE UNCHANGED <<result, error>>
         /\ UNCHANGED <<isLoading, requestGenerationRef, lastRequestRef,
                        lastDispatched, inflight, calls>>
    ELSE /\ isLoading' = TRUE
         /\ error' = ""
         /\ lastRequestRef' = key
         /\ inflight' = inflight \cup {NewCall(0)}
         /\ calls' = calls + 1
         /\ lastDispatched' = key
         /\ UNCHANGED <<result, requestGenerationRef>>

\* (mutant) the effect has no dependency array and runs after every render
performTranslationEffectAlways ==
    IF variant = "generation"
    THEN performTranslationGeneration
    ELSE performTranslationRequestKey

\* useEffect(() => { performTranslation(); }, [performTranslation])
performTranslationEffect ==
    IF seen.perform # renderDeps.perform
    THEN IF variant = "generation"
         THEN performTranslationGeneration
         ELSE performTranslationRequestKey
    ELSE UNCHANGED <<result, error, isLoading, requestGenerationRef, lastRequestRef,
                     lastDispatched, inflight, calls>>

\* the condition of the effect that keeps the two languages apart
LanguagesCollide ==
    IF variant = "generation"
    THEN sourceLang = targetLang
    ELSE sourceLang # "auto" /\ sourceLang = targetLang

\* (mutant) the component has no effect on the languages
languageEffectMissing == UNCHANGED targetLang

\* (mutant) the effect always falls back to Kurdish
languageEffectToKurdish ==
    IF seen.lang # renderDeps.lang /\ LanguagesCollide
    THEN targetLang' = "ku"
    ELSE UNCHANGED targetLang

\* useEffect on [sourceLang, targetLang]
languageEffect ==
    IF seen.lang # renderDeps.lang /\ LanguagesCollide
    THEN targetLang' = IF sourceLang = "ku" THEN "en" ELSE "ku"
    ELSE UNCHANGED targetLang

\* what the flush makes of performTranslation: not run, the empty-text branch,
\* the duplicate-key return, or a translateText call
Reconcile ==
    IF seen.perform = renderDeps.perform THEN "none"
    ELSE IF trim(debouncedValue) = Empty THEN "empty"
    ELSE IF variant = "requestKey"
            /\ lastRequestRef = requestKey(debouncedValue, sourceLang, targetLang, uiLang)
         THEN "duplicate"
         ELSE "dispatch"

\* the passive effects of the committed render, in the order the component
\* declares them
FlushEffects ==
    /\ EffectsPending
    /\ useDebounceEffect
    /\ performTranslationEffect
    /\ languageEffect
    /\ seen' = renderDeps
    /\ lastStep' = <<"FlushEffects", Reconcile, "">>
    /\ UNCHANGED <<mounted, response, variant, apiKey, sourceText, sourceLang, uiLang, isMeaningVisible,
                   showAlternatives, debouncedValue, sinceChange, events>>

----------------------------------------------------------------------------
(* The debounce timer *)

Min(a, b) == IF a < b THEN a ELSE b

Max(a, b) == IF a > b THEN a ELSE b

\* one unit of time passes; once no timer is running and the text has been
\* quiet for the whole delay, the passing of time changes nothing
Tick ==
    /\ Flushed
    /\ \/ \E tm \in timers : tm.left > 0
       \/ sinceChange < DelayTicks
    /\ timers' = {[tm EXCEPT !.left = Max(0, tm.left - 1)] : tm \in timers}
    /\ sinceChange' = Min(DelayTicks, sinceChange + 1)
    /\ lastStep' = <<"Tick", "", "">>
    /\ UNCHANGED <<mounted, response, variant, apiKey, sourceText, sourceLang, targetLang, uiLang, result,
                   isLoading, error, isMeaningVisible, showAlternatives, debouncedValue,
                   requestGenerationRef, lastRequestRef,
                   lastDispatched, inflight, seen, calls, events>>

\* the setTimeout callback of useDebounce: setDebouncedValue(value)
TimerFire(tm) ==
    /\ Flushed
    /\ tm \in timers
    /\ tm.left = 0
    /\ debouncedValue' = tm.value
    /\ timers' = timers \ {tm}
    /\ lastStep' = <<"TimerFire", "", "">>
    /\ UNCHANGED <<mounted, response, variant, apiKey, sourceText, sourceLang, targetLang, uiLang, result,
                   isLoading, error, isMeaningVisible, showAlternatives,
                   requestGenerationRef, lastRequestRef,
                   lastDispatched, inflight, seen, calls, sinceChange, events>>

----------------------------------------------------------------------------
(* Settling of a translateText promise *)

\* (mutant) the token is never compared
IsCurrentGenerationUnchecked(c) == TRUE

\* currentGeneration === requestGenerationRef.current
IsCurrentGeneration(c) == c.generation = requestGenerationRef

\* whether the continuation of performTranslation writes the UI state: the
\* generation revision checks its token, the requestKey revision checks nothing
CompletionApplies(c) ==
    IF variant = "generation" THEN IsCurrentGeneration(c) ELSE TRUE

\* (mutant) every failure shows the generic message
ErrorMessageUnclassified(c, message) == t(c.uiLang, "apiError")

\* the message the catch block shows, with the t() the call captured
ErrorMessage(c, message) ==
    IF message = ApiKeyMissing
    THEN t(c.uiLang, "apiKeyMissingError")
    ELSE t(c.uiLang, "apiError")

\* (mutant) a result whose main translation was changed on screen is kept
OnSuccessKeepsPromotion(c, value) ==
    IF CompletionApplies(c)
    THEN /\ result' = IF result # Null /\ result.mainTranslation # value.mainTranslation
                      THEN result
                      ELSE value
         /\ isMeaningVisible' = FALSE
         /\ showAlternatives' = FALSE
         /\ UNCHANGED error
    ELSE UNCHANGED <<result, isMeaningVisible, showAlternatives, error>>

\* (mutant) the response is not stored
OnSuccessWithoutResult(c, value) ==
    IF CompletionApplies(c)
    THEN /\ isMeaningVisible' = FALSE
         /\ showAlternatives' = FALSE
         /\ UNCHANGED <<result, error>>
    ELSE UNCHANGED <<result, isMeaningVisible, showAlternatives, error>>

\* the try block after the await
OnSuccess(c, value) ==
    IF CompletionApplies(c)
    THEN /\ result' = value
         /\ isMeaningVisible' = FALSE
         /\ showAlternatives' = FALSE
         /\ UNCHANGED error
    ELSE UNCHANGED <<result, isMeaningVisible, showAlternatives, error>>

\* the catch block
OnFailure(c, message) ==
    IF CompletionApplies(c)
    THEN /\ error' = ErrorMessage(c, message)
         /\ result' = Null
         /\ UNCHANGED <<isMeaningVisible, showAlternatives>>
    ELSE UNCHANGED <<result, isMeaningVisible, showAlternatives, error>>

\* (mutant) the finally block clears the flag whatever the token says
FinallyUnguarded(c) == isLoading' = FALSE

\* (mutant) the flag is cleared on no path
FinallyMissing(c) == UNCHANGED isLoading

\* the finally block
Finally(c) ==
    IF CompletionApplies(c)
    THEN isLoading' = FALSE
    ELSE UNCHANGED isLoading

\* whether a newer call has been made since call c
Standing(c) ==
    IF c.id = calls THEN "latest" ELSE "superseded"

\* how a promise settled: fulfilled, or rejected with which message
Outcome(settled) ==
    IF settled.ok THEN "fulfilled" ELSE settled.message

\* the promise of call c settles, the endpoint having done svc
Complete(c, svc) ==
    /\ Flushed
    /\ c \in inflight
    /\ LET settled == translateText(c.text, apiKey, svc) IN
        /\ IF settled.ok THEN OnSuccess(c, settled.value)
                         ELSE OnFailure(c, settled.message)
        /\ Finally(c)
        /\ lastStep' = <<"Complete", Standing(c), Outcome(settled)>>
    /\ inflight' = inflight \ {c}
    /\ UNCHANGED <<mounted, response, variant, apiKey, sourceText, sourceLang, targetLang, uiLang,
                   debouncedValue, timers, requestGenerationRef, lastRequestRef,
                   lastDispatched, seen, calls, sinceChange, events>>

----------------------------------------------------------------------------
(* User events *)

\* <textarea onChange>
SetSourceText(v) ==
    /\ Flushed
    /\ UserEvent
    /\ v # sourceText
    /\ sourceText' = v
    /\ sinceChange' = 0
    /\ lastStep' = <<"SetSourceText", "", "">>
    /\ UNCHANGED <<mounted, response, variant, apiKey, sourceLang, targetLang, uiLang, result, isLoading,
                   error, isMeaningVisible, showAlternatives, debouncedValue, timers,
                   requestGenerationRef, lastRequestRef,
                   lastDispatched, inflight, seen, calls>>

\* <select value={sourceLang} onChange>
SetSourceLang(l) ==
    /\ Flushed
    /\ UserEvent
    /\ l # sourceLang
    /\ sourceLang' = l
    /\ lastStep' = <<"SetSourceLang", "", "">>
    /\ UNCHANGED <<mounted, response, variant, apiKey, sourceText, targetLang, uiLang, result, isLoading,
                   error, isMeaningVisible, showAlternatives, debouncedValue, timers,
                   requestGenerationRef, lastRequestRef,
                   lastDispatched, inflight, seen, calls, sinceChange>>

\* <select value={targetLang} onChange>
SetTargetLang(l) ==
    /\ Flushed
    /\ UserEvent
    /\ l # targetLang
    /\ targetLang' = l
    /\ lastStep' = <<"SetTargetLang", "", "">>
    /\ UNCHANGED <<mounted, response, variant, apiKey, sourceText, sourceLang, uiLang, result, isLoading,
                   error, isMeaningVisible, showAlternatives, debouncedValue, timers,
                   requestGenerationRef, lastRequestRef,
                   lastDispatched, inflight, seen, calls, sinceChange>>

\* the UI language buttons: setUiLang(lang)
SetUiLang(l) ==
    /\ Flushed
    /\ UserEvent
    /\ l # uiLang
    /\ uiLang' = l
    /\ lastStep' = <<"SetUiLang", "", "">>
    /\ UNCHANGED <<mounted, response, variant, apiKey, sourceText, sourceLang, targetLang, result,
                   isLoading, error, isMeaningVisible, showAlternatives, debouncedValue,
                   timers, requestGenerationRef, lastRequestRef,
                   lastDispatched, inflight, seen, calls, sinceChange>>

\* result?.mainTranslation || ''
MainTranslationOrEmpty ==
    IF result # Null THEN result.mainTranslation ELSE Empty

\* the swap button is disabled while the source language is 'auto'
SwapEnabled == variant = "requestKey" => sourceLang # "auto"

\* (mutant) the swap exchanges the languages and leaves the text alone
handleSwapLanguagesKeepsText ==
    /\ Flushed
    /\ UserEvent
    /\ SwapEnabled
    /\ sourceLang' = targetLang
    /\ targetLang' = sourceLang
    /\ lastStep' = <<"handleSwapLanguages", "", "">>
    /\ UNCHANGED <<mounted, response, variant, apiKey, uiLang, result, isLoading, error,
                   isMeaningVisible, showAlternatives, debouncedValue, timers,
                   requestGenerationRef, lastRequestRef, lastDispatched, inflight,
                   seen, calls, sourceText, sinceChange>>

handleSwapLanguages ==
    /\ Flushed
    /\ UserEvent
    /\ SwapEnabled
    /\ sourceLang' = targetLang
    /\ targetLang' = sourceLang
    /\ sourceText' = MainTranslationOrEmpty
    /\ sinceChange' = IF sourceText' # sourceText THEN 0 ELSE sinceChange
    /\ lastStep' = <<"handleSwapLanguages", "", "">>
    /\ UNCHANGED <<mounted, response, variant, apiKey, uiLang, result, isLoading, error, isMeaningVisible,
                   showAlternatives, debouncedValue, timers, requestGenerationRef,
                   lastRequestRef, lastDispatched, inflight, seen, calls>>

\* the result pane of the generation revision is rendered
ResultPaneShown ==
    /\ ~isLoading
    /\ error = ""
    /\ result # Null
    /\ result.mainTranslation # Empty

\* the "did you mean" button is rendered
CorrectionShown ==
    /\ variant = "generation" => sourceText # Empty
    /\ result # Null
    /\ result.correctedSourceText # Empty
    /\ result.correctedSourceText # sourceText

\* (mutant) the correction is also handed to the orchestrator at once
handleCorrectionClickImmediate ==
    /\ Flushed
    /\ UserEvent
    /\ CorrectionShown
    /\ IF result # Null /\ result.correctedSourceText # Empty
       THEN /\ sourceText' = result.correctedSourceText
            /\ debouncedValue' = result.correctedSourceText
       ELSE UNCHANGED <<sourceText, debouncedValue>>
    /\ sinceChange' = IF sourceText' # sourceText THEN 0 ELSE sinceChange
    /\ lastStep' = <<"handleCorrectionClick", "", "">>
    /\ UNCHANGED <<mounted, response, variant, apiKey, sourceLang, targetLang, uiLang, result,
                   isLoading, error, isMeaningVisible, showAlternatives, timers,
                   requestGenerationRef, lastRequestRef, lastDispatched, inflight,
                   seen, calls>>

handleCorrectionClick ==
    /\ Flushed
    /\ UserEvent
    /\ CorrectionShown
    /\ IF result # Null /\ result.correctedSourceText # Empty
       THEN sourceText' = result.correctedSourceText
       ELSE UNCHANGED sourceText
    /\ sinceChange' = IF sourceText' # sourceText THEN 0 ELSE sinceChange
    /\ lastStep' = <<"handleCorrectionClick", "", "">>
    /\ UNCHANGED <<mounted, response, variant, apiKey, sourceLang, targetLang, uiLang, result, isLoading,
                   error, isMeaningVisible, showAlternatives, debouncedValue, timers,
                   requestGenerationRef, lastRequestRef,
                   lastDispatched, inflight, seen, calls>>

\* the alternatives the user can click
AlternativesShown ==
    IF variant = "generation"
    THEN IF ResultPaneShown /\ showAlternatives
         THEN {result.alternativeTranslations[i] : i \in DOMAIN result.alternativeTranslations}
         ELSE {}
    ELSE IF result # Null
         THEN {result.alternativeTranslations[i] : i \in DOMAIN result.alternativeTranslations}
         ELSE {}

\* Array.prototype.filter(t => t !== alternative)
RECURSIVE FilterOut(_, _)
FilterOut(list, alternative) ==
    IF list = <<>> THEN <<>>
    ELSE IF Head(list) # alternative
         THEN <<Head(list)>> \o FilterOut(Tail(list), alternative)
         ELSE FilterOut(Tail(list), alternative)

\* (mutant) the new result is built without spreading the old one
handleAlternativeClickRebuilds(alternative) ==
    /\ Flushed
    /\ UserEvent
    /\ alternative \in AlternativesShown
    /\ IF result # Null
       THEN result' = [detectedLanguage |-> Empty,
                       correctedSourceText |-> Empty,
                       mainTranslation |-> alternative,
                       alternativeTranslations |->
                           Append(FilterOut(result.alternativeTranslations, alternative),
                                  result.mainTranslation),
                       meaningExplanation |-> Empty]
       ELSE UNCHANGED result
    /\ lastStep' = <<"handleAlternativeClick", "", "">>
    /\ UNCHANGED <<mounted, response, variant, apiKey, sourceText, sourceLang, targetLang, uiLang,
                   isLoading, error, isMeaningVisible, showAlternatives, debouncedValue,
                   timers, requestGenerationRef, lastRequestRef,
                   lastDispatched, inflight, seen, calls, sinceChange>>

handleAlternativeClick(alternative) ==
    /\ Flushed
    /\ UserEvent
    /\ alternative \in AlternativesShown
    /\ IF result # Null
       THEN result' = [result EXCEPT
                !.mainTranslation = alternative,
                !.alternativeTranslations =
                    Append(FilterOut(result.alternativeTranslations, alternative),
                           result.mainTranslation)]
       ELSE UNCHANGED result
    /\ lastStep' = <<"handleAlternativeClick", "", "">>
    /\ UNCHANGED <<mounted, response, variant, apiKey, sourceText, sourceLang, targetLang, uiLang,
                   isLoading, error, isMeaningVisible, showAlternatives, debouncedValue,
                   timers, requestGenerationRef, lastRequestRef,
                   lastDispatched, inflight, seen, calls, sinceChange>>

\* the info button is rendered
MeaningButtonShown ==
    /\ variant = "generation" => ResultPaneShown
    /\ result # Null
    /\ result.meaningExplanation # Empty

\* onClick={() => setIsMeaningVisible(!isMeaningVisible)}
ToggleMeaning ==
    /\ Flushed
    /\ UserEvent
    /\ MeaningButtonShown
    /\ isMeaningVisible' = ~isMeaningVisible
    /\ lastStep' = <<"ToggleMeaning", "", "">>
    /\ UNCHANGED <<mounted, response, variant, apiKey, sourceText, sourceLang, targetLang, uiLang, result,
                   isLoading, error, showAlternatives, debouncedValue, timers,
                   requestGenerationRef, lastRequestRef,
                   lastDispatched, inflight, seen, calls, sinceChange>>

\* onClick={() => setShowAlternatives(!showAlternatives)}
ToggleAlternatives ==
    /\ Flushed
    /\ UserEvent
    /\ variant = "generation"
    /\ ResultPaneShown
    /\ Len(result.alternativeTranslations) > 0
    /\ showAlternatives' = ~showAlternatives
    /\ lastStep' = <<"ToggleAlternatives", "", "">>
    /\ UNCHANGED <<mounted, response, variant, apiKey, sourceText, sourceLang, targetLang, uiLang, result,
                   isLoading, error, isMeaningVisible, debouncedValue, timers,
                   requestGenerationRef, lastRequestRef,
                   lastDispatched, inflight, seen, calls, sinceChange>>

----------------------------------------------------------------------------
(* The state machine *)

\* the component after its first render and the effects of that render
Init ==
    /\ mounted = TRUE
    /\ response = FullResponse
    /\ variant \in {"generation", "requestKey"}
    /\ apiKey \in BOOLEAN
    /\ sourceText = Empty
    /\ sourceLang = IF variant = "generation" THEN "ku" ELSE "auto"
    /\ targetLang = IF variant = "generation" THEN "tr" ELSE "ku"
    /\ uiLang = "tr"
    /\ result = Null
    /\ isLoading = FALSE
    /\ error = ""
    /\ isMeaningVisible = FALSE
    /\ showAlternatives = FALSE
    /\ debouncedValue = Empty
    /\ timers = {[value |-> Empty, left |-> DelayTicks]}
    /\ requestGenerationRef = 0
    /\ lastRequestRef = Empty
    /\ lastDispatched = Empty
    /\ inflight = {}
    /\ seen = renderDeps
    /\ calls = 0
    /\ lastStep = <<"Init", "", "">>
    /\ sinceChange = 0
    /\ events = 0

Next ==
    \/ FlushEffects
    \/ Tick
    \/ \E tm \in timers : TimerFire(tm)
    \/ \E c \in inflight, svc \in ServiceOutcomes : Complete(c, svc)
    \/ \E v \in TypedTexts : SetSourceText(v)
    \/ \E l \in SourceOptions : SetSourceLang(l)
    \/ \E l \in TargetOptions : SetTargetLang(l)
    \/ \E l \in UiLanguages : SetUiLang(l)
    \/ handleSwapLanguages
    \/ handleCorrectionClick
    \/ \E a \in AlternativesShown : handleAlternativeClick(a)
    \/ ToggleMeaning
    \/ ToggleAlternatives

Spec == Init /\ [][Next]_vars

\* the generation revision alone
InitGeneration == Init /\ variant = "generation"

SpecGeneration == InitGeneration /\ [][Next]_vars

\* the requestKey revision alone (it has no alternatives toggle)
InitRequestKey == Init /\ variant = "requestKey"

NextRequestKey ==
    \/ FlushEffects
    \/ Tick
    \/ \E tm \in timers : TimerFire(tm)
    \/ \E c \in inflight, svc \in ServiceOutcomes : Complete(c, svc)
    \/ \E v \in TypedTexts : SetSourceText(v)
    \/ \E l \in SourceOptions : SetSourceLang(l)
    \/ \E l \in TargetOptions : SetTargetLang(l)
    \/ \E l \in UiLanguages : SetUiLang(l)
    \/ handleSwapLanguages
    \/ handleCorrectionClick
    \/ \E a \in AlternativesShown : handleAlternativeClick(a)
    \/ ToggleMeaning

SpecRequestKey == InitRequestKey /\ [][NextRequestKey]_vars

\* the component with its teardown: React unmounts App and runs the cleanup
\* of the debounce effect; the clock and any timer still pending run on
Unmount ==
    /\ mounted
    /\ Flushed
    /\ mounted' = FALSE
    /\ timers' = clearTimeout(timers)
    /\ lastStep' = <<"Unmount", "", "">>
    /\ UNCHANGED <<response, variant, apiKey, sourceText, sourceLang, targetLang, uiLang,
                   result, isLoading, error, isMeaningVisible, showAlternatives,
                   debouncedValue, requestGenerationRef, lastRequestRef, lastDispatched,
                   inflight, seen, calls, sinceChange, events>>

NextTeardown ==
    \/ Unmount
    \/ Tick
    \/ \E tm \in timers : TimerFire(tm)
    \/ mounted /\ FlushEffects
    \/ mounted /\ \E c \in inflight, svc \in ServiceOutcomes : Complete(c, svc)
    \/ mounted /\ \E v \in TypedTexts : SetSourceText(v)
    \/ mounted /\ \E l \in SourceOptions : SetSourceLang(l)
    \/ mounted /\ \E l \in TargetOptions : SetTargetLang(l)
    \/ mounted /\ \E l \in UiLanguages : SetUiLang(l)
    \/ mounted /\ handleSwapLanguages
    \/ mounted /\ handleCorrectionClick
    \/ mounted /\ \E a \in AlternativesShown : handleAlternativeClick(a)
    \/ mounted /\ ToggleMeaning
    \/ mounted /\ ToggleAlternatives

SpecTeardown == Init /\ [][NextTeardown]_vars

\* the component with a translation on screen, whatever the endpoint answered
\* for the main translation and the alternatives: "a" was typed, its call was
\* fulfilled, and the user now works on the result
MaxAlternatives == 3

Translations == {Str("m"), Str("n"), Str("o")}

AlternativeLists == UNION {[1..k -> Translations] : k \in 0..MaxAlternatives}

ShownResponses ==
    {[FullResponse EXCEPT !.mainTranslation = main, !.alternativeTranslations = list] :
        main \in {Str("m"), Str("n")}, list \in AlternativeLists}

InitShown ==
    /\ mounted = TRUE
    /\ response \in ShownResponses
    /\ variant \in {"generation", "requestKey"}
    /\ apiKey = TRUE
    /\ sourceText = Str("a")
    /\ sourceLang = (IF variant = "generation" THEN "ku" ELSE "auto")
    /\ targetLang = (IF variant = "generation" THEN "tr" ELSE "ku")
    /\ uiLang = "tr"
    /\ result = translateText(sourceText, apiKey, [ok |-> TRUE, body |-> ObjectBody(response)]).value
    /\ isLoading = FALSE
    /\ error = ""
    /\ isMeaningVisible = FALSE
    /\ showAlternatives = FALSE
    /\ debouncedValue = sourceText
    /\ timers = {}
    /\ requestGenerationRef = (IF variant = "generation" THEN 1 ELSE 0)
    /\ lastDispatched = requestKey(debouncedValue, sourceLang, targetLang, uiLang)
    /\ lastRequestRef = (IF variant = "generation" THEN Empty ELSE lastDispatched)
    /\ inflight = {}
    /\ seen = renderDeps
    /\ calls = 1
    /\ lastStep = <<"Complete", "latest", "fulfilled">>
    /\ sinceChange = DelayTicks
    /\ events = 1

NextShown ==
    \/ \E a \in AlternativesShown : handleAlternativeClick(a)
    \/ ToggleMeaning
    \/ ToggleAlternatives

SpecShown == InitShown /\ [][NextShown]_vars

\* the component waiting for its first call, whatever object the endpoint
\* answers with: each of the five keys may be missing, empty, or filled
ResultFields ==
    {"detectedLanguage", "correctedSourceText", "mainTranslation",
     "alternativeTranslations", "meaningExplanation"}

EmptyOf(field) == IF field = "alternativeTranslations" THEN <<>> ELSE Empty

FilledWith(field) ==
    IF field = "detectedLanguage" THEN Str("k") ELSE FullResponse[field]

ParsedResponses ==
    {[field \in present |-> IF field \in blank THEN EmptyOf(field) ELSE FilledWith(field)] :
        present \in SUBSET ResultFields, blank \in SUBSET ResultFields}

InitParsed ==
    /\ mounted = TRUE
    /\ response \in ParsedResponses
    /\ variant \in {"generation", "requestKey"}
    /\ apiKey = TRUE
    /\ sourceText = Str("a")
    /\ sourceLang = (IF variant = "generation" THEN "ku" ELSE "auto")
    /\ targetLang = (IF variant = "generation" THEN "tr" ELSE "ku")
    /\ uiLang = "tr"
    /\ result = Null
    /\ isLoading = TRUE
    /\ error = ""
    /\ isMeaningVisible = FALSE
    /\ showAlternatives = FALSE
    /\ debouncedValue = sourceText
    /\ timers = {}
    /\ requestGenerationRef = (IF variant = "generation" THEN 1 ELSE 0)
    /\ lastDispatched = requestKey(debouncedValue, sourceLang, targetLang, uiLang)
    /\ lastRequestRef = (IF variant = "generation" THEN Empty ELSE lastDispatched)
    /\ calls = 1
    /\ inflight = {[NewCall(requestGenerationRef) EXCEPT !.id = calls]}
    /\ seen = renderDeps
    /\ lastStep = <<"FlushEffects", "dispatch", "">>
    /\ sinceChange = DelayTicks
    /\ events = 1

NextParsed ==
    \E c \in inflight, svc \in ServiceOutcomes : Complete(c, svc)

SpecParsed == InitParsed /\ [][NextParsed]_vars

\* the component waiting for its first call, with or without a credential,
\* whatever the endpoint does: reject, or answer with no text, with text that
\* is not JSON, with a JSON null, string or array, or with a JSON object
EndpointAnswers ==
    {[ok |-> FALSE],
     [ok |-> TRUE, body |-> NoBody],
     [ok |-> TRUE, body |-> MalformedBody],
     [ok |-> TRUE, body |-> NullBody],
     [ok |-> TRUE, body |-> ValueBody(Str("b"))],
     [ok |-> TRUE, body |-> ValueBody(<<Str("n")>>)],
     [ok |-> TRUE, body |-> ObjectBody(response)]}

InitAnswered ==
    /\ mounted = TRUE
    /\ response \in ParsedResponses
    /\ variant \in {"generation", "requestKey"}
    /\ apiKey \in BOOLEAN
    /\ sourceText = Str("a")
    /\ sourceLang = (IF variant = "generation" THEN "ku" ELSE "auto")
    /\ targetLang = (IF variant = "generation" THEN "tr" ELSE "ku")
    /\ uiLang = "tr"
    /\ result = Null
    /\ isLoading = TRUE
    /\ error = ""
    /\ isMeaningVisible = FALSE
    /\ showAlternatives = FALSE
    /\ debouncedValue = sourceText
    /\ timers = {}
    /\ requestGenerationRef = (IF variant = "generation" THEN 1 ELSE 0)
    /\ lastDispatched = requestKey(debouncedValue, sourceLang, targetLang, uiLang)
    /\ lastRequestRef = (IF variant = "generation" THEN Empty ELSE lastDispatched)
    /\ calls = 1
    /\ inflight = {[NewCall(requestGenerationRef) EXCEPT !.id = calls]}
    /\ seen = renderDeps
    /\ lastStep = <<"FlushEffects", "dispatch", "">>
    /\ sinceChange = DelayTicks
    /\ events = 1

NextAnswered ==
    \E c \in inflight, svc \in EndpointAnswers : Complete(c, svc)

SpecAnswered == InitAnswered /\ [][NextAnswered]_vars

\* the requestKey revision with a credential and an endpoint that answers
\* every request: no translateText call fails
InitServed == InitRequestKey /\ apiKey = TRUE

Answered == {svc \in ServiceOutcomes : svc.ok}

NextServed ==
    \/ FlushEffects
    \/ Tick
    \/ \E tm \in timers : TimerFire(tm)
    \/ \E c \in inflight, svc \in Answered : Complete(c, svc)
    \/ \E v \in TypedTexts : SetSourceText(v)
    \/ \E l \in SourceOptions : SetSourceLang(l)
    \/ \E l \in TargetOptions : SetTargetLang(l)
    \/ \E l \in UiLanguages : SetUiLang(l)
    \/ handleSwapLanguages
    \/ handleCorrectionClick
    \/ \E a \in AlternativesShown : handleAlternativeClick(a)
    \/ ToggleMeaning

SpecServed == InitServed /\ [][NextServed]_vars

\* the component with an endpoint that answers either with every field or
\* with an empty main translation
EmptyMainResponse == [FullResponse EXCEPT !.mainTranslation = Empty]

InitAnyMain ==
    /\ mounted = TRUE
    /\ response \in {FullResponse, EmptyMainResponse}
    /\ variant \in {"generation", "requestKey"}
    /\ apiKey \in BOOLEAN
    /\ sourceText = Empty
    /\ sourceLang = (IF variant = "generation" THEN "ku" ELSE "auto")
    /\ targetLang = (IF variant = "generation" THEN "tr" ELSE "ku")
    /\ uiLang = "tr"
    /\ result = Null
    /\ isLoading = FALSE
    /\ error = ""
    /\ isMeaningVisible = FALSE
    /\ showAlternatives = FALSE
    /\ debouncedValue = Empty
    /\ timers = {[value |-> Empty, left |-> DelayTicks]}
    /\ requestGenerationRef = 0
    /\ lastRequestRef = Empty
    /\ lastDispatched = Empty
    /\ inflight = {}
    /\ seen = renderDeps
    /\ calls = 0
    /\ lastStep = <<"Init", "", "">>
    /\ sinceChange = 0
    /\ events = 0

SpecAnyMain == InitAnyMain /\ [][Next]_vars

----------------------------------------------------------------------------
(* Properties *)

\* the step settles the promise of call c
Settles(c) ==
    /\ lastStep'[1] = "Complete"
    /\ c \in inflight
    /\ inflight' = inflight \ {c}

\* the step settles a promise after a newer call has been made
SettlesSuperseded ==
    /\ lastStep'[1] = "Complete"
    /\ lastStep'[2] = "superseded"

\* C1: in the generation revision, the settling of a superseded call, fulfilled
\* or rejected, before or after the newer call settles, never writes result or
\* error: only the most recently made call does.
C1_SupersededNeverObserved ==
    [][SettlesSuperseded => (result' = result /\ error' = error)]_vars

\* a fulfilled superseded call has just been dropped, after the newer call had
\* failed: the error of the newer call is still shown
C1_Witness ==
    /\ variant = "generation"
    /\ lastStep = <<"Complete", "superseded", "fulfilled">>
    /\ inflight = {}
    /\ result = Null
    /\ error # ""

\* C2: a reconcile with empty trimmed text leaves result null, error empty and
\* isLoading false.
C2_EmptyReconcileClearsAll ==
    (lastStep[1] = "FlushEffects" /\ lastStep[2] = "empty")
        => (result = Null /\ error = "" /\ isLoading = FALSE)

\* C3: a reconcile whose tuple equals that of the most recent translateText
\* call makes no call and leaves result, error and isLoading as they are.
C3_DuplicateReconcileIsSuppressed ==
    [][(/\ lastStep'[1] = "FlushEffects"
        /\ seen.perform # renderDeps.perform
        /\ requestKey(debouncedValue, sourceLang, targetLang, uiLang) = lastDispatched)
          => (calls' = calls /\ UNCHANGED <<result, error, isLoading>>)]_vars

\* C4: in the generation revision, the settling of a call whose captured
\* generation differs from the current one changes none of result, error,
\* isLoading, isMeaningVisible, showAlternatives.
C4_StaleCompletionIsNoOp ==
    [][\A c \in inflight :
          (Settles(c) /\ c.generation # requestGenerationRef)
              => UNCHANGED <<result, error, isLoading, isMeaningVisible,
                             showAlternatives>>]_vars

\* a stale call has just settled while the explanation of the newer result was
\* open, and it is still open
C4_Witness ==
    /\ variant = "generation"
    /\ lastStep[1] = "Complete"
    /\ lastStep[2] = "superseded"
    /\ isMeaningVisible
    /\ result # Null

\* C5: in the requestKey revision, the settling of an earlier call never
\* changes result, error or isLoading once a later call has been made.
C5_EarlierCallNeverObserved ==
    [][SettlesSuperseded => UNCHANGED <<result, error, isLoading>>]_vars

\* the steps that, by C6, leave the generation alone
KeepsGeneration ==
    \/ lastStep'[1] \in {"Complete", "handleSwapLanguages", "handleCorrectionClick",
                         "handleAlternativeClick"}
    \/ lastStep'[1] = "FlushEffects" /\ lastStep'[2] = "empty"

\* C6: in the generation revision the generation never decreases, grows by
\* exactly one for each translateText call made, is left alone by an empty
\* reconcile, by any completion, by swap, accept-correction and promote, and so
\* always equals the number of calls made.
C6_GenerationCountsCalls ==
    /\ [](requestGenerationRef = calls)
    /\ [][/\ requestGenerationRef' >= requestGenerationRef
          /\ requestGenerationRef' - requestGenerationRef
                 = Cardinality(inflight' \ inflight)
          /\ KeepsGeneration => requestGenerationRef' = requestGenerationRef]_vars

\* two calls have been made and a text has since been cleared: the empty
\* reconcile has run with the generation at two
C6_Witness ==
    /\ variant = "generation"
    /\ lastStep[1] = "FlushEffects"
    /\ lastStep[2] = "empty"
    /\ requestGenerationRef = 2

\* C7: in the generation revision, when a call whose captured generation is
\* still current is fulfilled, result becomes the response, isLoading false,
\* and error stays empty.
C7_CurrentSuccessIsShown ==
    [][\A c \in inflight :
          (Settles(c) /\ lastStep'[3] = "fulfilled"
                      /\ c.generation = requestGenerationRef)
              => /\ \E svc \in ServiceOutcomes :
                       /\ svc.ok
                       /\ result' = translateText(c.text, apiKey, svc).value
                 /\ isLoading' = FALSE
                 /\ error = ""
                 /\ error' = ""]_vars

\* the current call has just been fulfilled and its response is shown
C7_Witness ==
    /\ variant = "generation"
    /\ lastStep = <<"Complete", "latest", "fulfilled">>
    /\ result # Null
    /\ result.mainTranslation = FullResponse.mainTranslation
    /\ ~isLoading

\* C8: when a call whose captured generation is still current is rejected,
\* result becomes null, isLoading false, and error the apiKeyMissingError text
\* if the rejection is API_KEY_MISSING and the apiError text otherwise, taken
\* in the UI language the call captured; the step is an ordinary state change.
C8_CurrentFailureIsShown ==
    [][\A c \in inflight :
          (Settles(c) /\ lastStep'[3] # "fulfilled"
                      /\ c.generation = requestGenerationRef)
              => /\ result' = Null
                 /\ isLoading' = FALSE
                 /\ error' = IF lastStep'[3] = ApiKeyMissing
                             THEN translations[c.uiLang].apiKeyMissingError
                             ELSE translations[c.uiLang].apiError]_vars

\* a call has just been rejected for the missing key and the localized
\* configuration message is shown
C8_Witness ==
    /\ lastStep[1] = "Complete"
    /\ lastStep[3] = ApiKeyMissing
    /\ result = Null
    /\ ~isLoading
    /\ \E l \in UiLanguages : error = translations[l].apiKeyMissingError

\* every promise settles and every committed render has its effects run
SpecFair ==
    /\ Spec
    /\ WF_vars(FlushEffects)
    /\ WF_vars(\E c \in inflight, svc \in ServiceOutcomes : Complete(c, svc))

\* C9: if every call settles and the input stops changing, isLoading is
\* eventually false and stays false.
C9_LoadingEventuallyClears == <>[](isLoading = FALSE)

\* two calls were made, the superseded one settled last, and isLoading is off
C9_Witness ==
    /\ calls >= 2
    /\ inflight = {}
    /\ lastStep[1] = "Complete"
    /\ lastStep[2] = "superseded"
    /\ ~isLoading

\* C10: the debounced value changes only when the delay has passed since the
\* last change of the source value; after the effects have run there is at
\* most one pending timer, it carries the current source value, and it was
\* started at that value's last change.
C10_DebounceWaitsForQuiet ==
    /\ [][debouncedValue' # debouncedValue => sinceChange >= DelayTicks]_vars
    /\ [](Flushed => /\ Cardinality(timers) <= 1
                     /\ \A tm \in timers :
                           /\ tm.value = sourceText
                           /\ tm.left >= DelayTicks - sinceChange)

\* after a second user event, the timer started at the last change of the text
\* has just published the typed value, a full delay after that change
C10_Witness ==
    /\ lastStep[1] = "TimerFire"
    /\ events >= 2
    /\ sinceChange = DelayTicks
    /\ debouncedValue = Str("a")
    /\ seen.perform[1] = Empty

\* every promise settles, every committed render has its effects run, time
\* passes and every timer that is due runs its callback
SpecFairTimers ==
    /\ SpecFair
    /\ WF_vars(Tick)
    /\ WF_vars(\E tm \in timers : TimerFire(tm))

\* C11: whenever the debounced value changes it becomes the source value of
\* that moment, the last of the changes made so far, and once the source stops
\* changing the debounced value eventually equals it for good.
C11_DebounceTakesLastValue ==
    /\ [][debouncedValue' # debouncedValue => debouncedValue' = sourceText]_vars
    /\ <>[](debouncedValue = sourceText)

\* the text was edited twice in one run (to a blank, then to "a") with no other
\* user event, and the timer has just published "a": the debounced value went
\* from empty to "a" without ever holding the blank
C11_Witness ==
    /\ lastStep[1] = "TimerFire"
    /\ events = 2
    /\ uiLang = "tr"
    /\ sourceLang = (IF variant = "generation" THEN "ku" ELSE "auto")
    /\ targetLang = (IF variant = "generation" THEN "tr" ELSE "ku")
    /\ timers = {}
    /\ sourceText = Str("a")
    /\ debouncedValue = sourceText
    /\ seen.perform[1] = Empty

\* the timer callback runs: the quiet period after a run of edits is over
QuietPeriodEnds == lastStep'[1] = "TimerFire"

\* the effects run after the debounced value changed to a text that is not blank
FlushOfNewText ==
    /\ lastStep'[1] = "FlushEffects"
    /\ seen.perform[1] # debouncedValue
    /\ trim(debouncedValue) # Empty

\* the step makes exactly one translateText call, and it carries the source text
DispatchesFinalText ==
    /\ calls' = calls + 1
    /\ debouncedValue = sourceText
    /\ \E c \in inflight' \ inflight :
          /\ inflight' = inflight \cup {c}
          /\ c.text = sourceText

\* no step but the effect flush makes a call, and a flush whose text and
\* languages are those of the flush before makes none
NoOtherCall ==
    (lastStep'[1] # "FlushEffects" \/ seen.perform = renderDeps.perform)
        => (calls' = calls /\ inflight' \subseteq inflight)

\* C12 as stated: in the generation revision, the end of the quiet period after
\* any run of edits that leaves a text that is not blank publishes that text,
\* and the flush that follows makes exactly one call, carrying it; nothing else
\* makes a call while the languages stay as they are.
C12_BurstDispatchesOneCall ==
    [][/\ (QuietPeriodEnds /\ trim(sourceText) # Empty)
              => debouncedValue' # debouncedValue
       /\ FlushOfNewText => DispatchesFinalText
       /\ NoOtherCall]_vars

\* C12 amended: the end of the quiet period publishes the final text; if that
\* differs from the debounced value before the run, the flush that follows
\* makes exactly one call, carrying it; if it is the same, no call is made.
C12_BurstDispatchesAtMostOneCall ==
    [][/\ QuietPeriodEnds => debouncedValue' = sourceText
       /\ FlushOfNewText => DispatchesFinalText
       /\ NoOtherCall]_vars

\* two edits and no other user event, then the quiet period: one call has just
\* been made, and it carries the final text
C12_Witness ==
    /\ variant = "generation"
    /\ lastStep = <<"FlushEffects", "dispatch", "">>
    /\ events = 2
    /\ uiLang = "tr" /\ sourceLang = "ku" /\ targetLang = "tr"
    /\ sourceText = Str("a")
    /\ calls = 1
    /\ \E c \in inflight : c.text = sourceText

\* C13: once the component is torn down no debounce timer is pending, and the
\* debounced value never changes again.
C13_NoUpdateAfterTeardown ==
    /\ [](~mounted => timers = {})
    /\ [][~mounted => debouncedValue' = debouncedValue]_vars

\* the component was torn down with "a" typed and its timer pending; the delay
\* has since passed and the debounced value is still the empty one
C13_Witness ==
    /\ ~mounted
    /\ lastStep[1] = "Tick"
    /\ sinceChange = DelayTicks
    /\ sourceText = Str("a")
    /\ debouncedValue = Empty
    /\ timers = {}

\* C14: once the effects of a render have run, and so after every selection of
\* a source or target language and every swap, the source language differs from
\* the target language.
C14_LanguagesDiffer ==
    (Flushed \/ lastStep[1] = "FlushEffects") => sourceLang # targetLang

\* in the requestKey revision the user has selected Kurdish as the source while
\* it was the target; the effects have run and the target is now English
C14_Witness ==
    /\ variant = "requestKey"
    /\ events = 1
    /\ Flushed
    /\ lastStep[1] = "FlushEffects"
    /\ sourceLang = "ku"
    /\ targetLang = "en"

\* C15: when the effects run on a render whose source and target languages are
\* equal, the target becomes 'en' if the source is 'ku' and 'ku' otherwise, and
\* the source language stays as it is.
C15_CollisionRule ==
    [][(lastStep'[1] = "FlushEffects" /\ sourceLang = targetLang)
          => /\ targetLang' = (IF sourceLang = "ku" THEN "en" ELSE "ku")
             /\ sourceLang' = sourceLang]_vars

\* the effect has just run on a render with Turkish on both sides, and Kurdish
\* is now the target
C15_Witness ==
    /\ lastStep[1] = "FlushEffects"
    /\ seen.lang = <<"tr", "tr">>
    /\ sourceLang = "tr"
    /\ targetLang = "ku"

\* C16: a swap makes the old target the source and the old source the target,
\* puts a mainTranslation that is not empty into the source text, and changes
\* neither result, error, isLoading nor the generation, and makes no call.
C16_SwapExchanges ==
    [][lastStep'[1] = "handleSwapLanguages"
          => /\ sourceLang' = targetLang
             /\ targetLang' = sourceLang
             /\ (result # Null /\ result.mainTranslation # Empty)
                    => sourceText' = result.mainTranslation
             /\ UNCHANGED <<result, error, isLoading, requestGenerationRef>>
             /\ calls' = calls
             /\ inflight' = inflight]_vars

\* a swap has just put the translation shown into the source text
C16_Witness ==
    /\ lastStep[1] = "handleSwapLanguages"
    /\ result # Null
    /\ sourceText = result.mainTranslation
    /\ sourceText = FullResponse.mainTranslation

\* the entries of a list, as a set
Entries(list) == {list[i] : i \in DOMAIN list}

\* no entry occurs twice in the list
NoDuplicates(list) ==
    \A i, j \in DOMAIN list : list[i] = list[j] => i = j

\* C17: promoting an alternative A of the list L while the main translation is
\* M makes A the main translation and leaves a list whose entries are those of
\* L without A, plus M, none of them twice.
C17_PromoteKeepsSet ==
    [][(lastStep'[1] = "handleAlternativeClick" /\ result # Null)
          => /\ result'.mainTranslation \in Entries(result.alternativeTranslations)
             /\ Entries(result'.alternativeTranslations)
                    = (Entries(result.alternativeTranslations)
                           \ {result'.mainTranslation})
                      \cup {result.mainTranslation}
             /\ NoDuplicates(result'.alternativeTranslations)]_vars

\* C18: promoting an alternative makes no call and schedules no effect, leaves
\* the generation, the last request key, isLoading, error, the source text and
\* both languages as they are, and keeps the correctedSourceText,
\* meaningExplanation and detectedLanguage of the result; a null result stays
\* null.
C18_PromoteIsLocal ==
    [][lastStep'[1] = "handleAlternativeClick"
          => /\ calls' = calls
             /\ inflight' = inflight
             /\ ~EffectsPending'
             /\ UNCHANGED <<requestGenerationRef, lastRequestRef, isLoading, error,
                            sourceText, sourceLang, targetLang>>
             /\ result = Null => result' = Null
             /\ result # Null =>
                   /\ result' # Null
                   /\ result'.correctedSourceText = result.correctedSourceText
                   /\ result'.meaningExplanation = result.meaningExplanation
                   /\ result'.detectedLanguage = result.detectedLanguage]_vars

\* an alternative has just been promoted; the correction and the explanation
\* the endpoint gave are still in the result
C18_Witness ==
    /\ lastStep[1] = "handleAlternativeClick"
    /\ result # Null
    /\ result.mainTranslation = FullResponse.alternativeTranslations[1]
    /\ result.correctedSourceText = FullResponse.correctedSourceText
    /\ result.meaningExplanation = FullResponse.meaningExplanation
    /\ calls = 1

\* C19: accepting the correction puts result.correctedSourceText into the
\* source text and writes nothing else: no call is made by the click or by the
\* effects that run right after it, result, the generation and the debounced
\* value stay as they are, so the new text reaches performTranslation only
\* when the debounce timer publishes it; with a null result or an empty
\* correction the text stays as it is.
C19_CorrectionOnlySetsText ==
    [][/\ lastStep'[1] = "handleCorrectionClick"
          => /\ sourceText' = (IF result # Null /\ result.correctedSourceText # Empty
                               THEN result.correctedSourceText
                               ELSE sourceText)
             /\ calls' = calls
             /\ inflight' = inflight
             /\ UNCHANGED <<result, requestGenerationRef, lastRequestRef, isLoading,
                            error, sourceLang, targetLang, uiLang, isMeaningVisible,
                            showAlternatives, debouncedValue, timers>>
       /\ (lastStep[1] = "handleCorrectionClick" /\ lastStep'[1] = "FlushEffects")
          => /\ calls' = calls
             /\ UNCHANGED <<result, requestGenerationRef, isLoading, debouncedValue>>
             /\ timers' = {[value |-> sourceText, left |-> DelayTicks]}]_vars

\* the correction has just been accepted: the source text is the corrected
\* text while the debounced value is still the text that was translated
C19_Witness ==
    /\ lastStep[1] = "handleCorrectionClick"
    /\ result # Null
    /\ sourceText = result.correctedSourceText
    /\ sourceText = FullResponse.correctedSourceText
    /\ debouncedValue = Str("a")
    /\ calls = 1

\* the call has been fulfilled and its TranslationResult is shown
Fulfilled == lastStep[1] = "Complete" /\ lastStep[3] = "fulfilled" /\ result # Null

\* the TranslationResult has all five fields
NoFieldUndefined == DOMAIN result = ResultFields

\* C20 as stated: every field of the TranslationResult that is missing from
\* the parsed response is the empty string, or the empty array for
\* alternativeTranslations, and the result has all five fields.
C20_MissingFieldsEmpty ==
    Fulfilled
        => /\ NoFieldUndefined
           /\ \A field \in ResultFields \ DOMAIN response :
                 result[field] = EmptyOf(field)

\* C20 amended: a missing correctedSourceText is the text that was sent; every
\* other missing field is the empty string, or the empty array for
\* alternativeTranslations; the result has all five fields.
C20_MissingFieldsDefaulted ==
    Fulfilled
        => /\ NoFieldUndefined
           /\ \A field \in ResultFields \ DOMAIN response :
                 result[field] = (IF field = "correctedSourceText"
                                  THEN debouncedValue
                                  ELSE EmptyOf(field))

\* the endpoint answered without a correctedSourceText and without
\* alternatives: the result holds the text sent and an empty list
C20_Witness ==
    /\ Fulfilled
    /\ "correctedSourceText" \notin DOMAIN response
    /\ "alternativeTranslations" \notin DOMAIN response
    /\ "mainTranslation" \in DOMAIN response
    /\ result.correctedSourceText = Str("a")
    /\ result.alternativeTranslations = <<>>

\* the request failed, or its answer is not the text of a JSON object
FailedOrUnparsable(svc) == ~svc.ok \/ svc.body.kind # "object"

\* C21: translateText rejects with API_KEY_MISSING whenever the credential is
\* absent, whatever the endpoint would do; with a credential it rejects with
\* the generic service error, and returns no result, whenever the request
\* fails or the answer cannot be parsed as the expected structure.
C21_FailuresAreRejections ==
    [][\A c \in inflight, svc \in EndpointAnswers :
          Complete(c, svc)
              => /\ ~apiKey => lastStep'[3] = ApiKeyMissing
                 /\ (apiKey /\ FailedOrUnparsable(svc))
                        => (lastStep'[3] = ServiceFailed /\ result' = Null)]_vars

\* the result on screen is no longer the one the endpoint gave: an alternative
\* has been promoted
LocallyEdited ==
    /\ result # Null
    /\ <<result.mainTranslation, result.alternativeTranslations>>
           # <<response.mainTranslation, response.alternativeTranslations>>

\* the step settles, fulfilled, a promise whose continuation writes the state
SettlesAccepted ==
    /\ lastStep'[1] = "Complete"
    /\ lastStep'[3] = "fulfilled"
    /\ \E c \in inflight : Settles(c) /\ CompletionApplies(c)

\* C22: promoting an alternative changes neither requestGenerationRef nor
\* lastRequestRef, and a response that is fulfilled and accepted while a
\* promoted result is on screen replaces it: the main translation and the
\* alternatives are those of the response again.
C22_ResponseOverwritesPromotion ==
    /\ [][lastStep'[1] = "handleAlternativeClick"
            => UNCHANGED <<requestGenerationRef, lastRequestRef>>]_vars
    /\ [][(LocallyEdited /\ SettlesAccepted)
            => /\ result' # Null
               /\ result'.mainTranslation = response.mainTranslation
               /\ result'.alternativeTranslations = response.alternativeTranslations]_vars

\* an alternative has just been promoted while a call whose response will be
\* accepted is still outstanding
C22_Witness ==
    /\ lastStep[1] = "handleAlternativeClick"
    /\ LocallyEdited
    /\ \E c \in inflight : CompletionApplies(c)

\* C23: while the debounced text is empty and the reconcile for it has run,
\* result is null and error is empty: a call made before the text was cleared
\* does not bring either back when it settles.
C23_ClearedStaysCleared ==
    (Flushed /\ trim(debouncedValue) = Empty) => (result = Null /\ error = "")

\* C24: no translateText call is made with the source language equal to the
\* target language; the forced correction of the target comes first.
C24_NoCallWithEqualLanguages ==
    \A c \in inflight : c.sourceLang # c.targetLang

\* C25: the reconcile that follows a language swap makes no translateText call
\* while the debounced text is still the text from before the swap: no call
\* pairs the pre-swap debounced text with the swapped languages.
C25_NoCallWithPreSwapText ==
    [][(/\ lastStep[1] = "handleSwapLanguages"
        /\ lastStep'[1] = "FlushEffects"
        /\ debouncedValue # sourceText)
          => calls' = calls]_vars

\* C26: in the requestKey revision, with every call fulfilled, whenever the
\* debounced text is non-empty, its reconcile has run and no call is
\* outstanding, a result is shown; so it is after the text is cleared and the
\* same text is entered again.
C26_SettledTextHasResult ==
    (Flushed /\ trim(debouncedValue) # Empty /\ inflight = {}) => result # Null

\* the most recently made translateText call has not settled yet
LatestOutstanding == \E c \in inflight : c.id = calls

\* C27: in the generation revision isLoading is true exactly while the most
\* recently made call is outstanding; the settling of a superseded call leaves
\* it true.
C27_LoadingIffLatestOutstanding ==
    /\ isLoading <=> LatestOutstanding
    /\ (lastStep[1] = "Complete" /\ lastStep[2] = "superseded" /\ LatestOutstanding)
          => isLoading

\* a superseded call has just settled while the latest one is outstanding
C27_Witness ==
    /\ variant = "generation"
    /\ lastStep[1] = "Complete"
    /\ lastStep[2] = "superseded"
    /\ LatestOutstanding
    /\ isLoading

\* C28: a swap made while result is null, or while its main translation is
\* empty, sets the source text to the empty string whatever it was, and
\* exchanges the two languages.
C28_SwapWithoutTranslationClearsText ==
    [][(/\ lastStep'[1] = "handleSwapLanguages"
        /\ (result = Null \/ result.mainTranslation = Empty))
          => /\ sourceText' = Empty
             /\ sourceLang' = targetLang
             /\ targetLang' = sourceLang]_vars

\* the swap has just emptied the textarea although a result was on screen:
\* its main translation is empty
C28_Witness ==
    /\ lastStep[1] = "handleSwapLanguages"
    /\ result # Null
    /\ result.mainTranslation = Empty
    /\ sourceText = Empty
    /\ debouncedValue = Str("a")

====
